---- MODULE Spec2Model ----
(***************************************************************************)
(* Commit-graph panel of the TSAR Advisor extension (src/src/extension.ts). *)
(*                                                                         *)
(* Two parts are modelled:                                                 *)
(*   - getCommitGraph: the lane layout (run/flush depth-first traversal),  *)
(*     one action per dfs activation step;                                 *)
(*   - the webview panel: initial paint, click / dblclick handlers, the    *)
(*     host's gitCheckout handler and the webview's message listener.      *)
(*                                                                         *)
(* A commit hash is the integer k of the k-th entry of orderedCommits      *)
(* (the commits sorted by ascending author timestamp), so hashIdx maps     *)
(* hash k to row k - 1.  The child relation is an arbitrary acyclic        *)
(* relation over the hashes: author timestamps need not follow ancestry.   *)
(***************************************************************************)
EXTENDS Integers, Sequences, FiniteSets, TLC

VARIABLES
  commits,      \* getCommitsChildren: hash -> sequence of child hashes
  height,       \* getCommitGraph.height: row -> lane (0 = unassigned)
  subTree,      \* getCommitGraph.subTree: the shared run buffer
  stack,        \* activation records of dfs: [hash, i] (i = 0: just entered)
  pc,           \* "dfs" while the traversal runs, "done" after the return,
                \* "failed" after a throw; before the traversal "command"
                \* (checkIsRepo pending), "init" (git.init called) or "query"
  answer,       \* the array returned by getCommitGraph
  flushes,      \* history: one record per executed flush
  run,          \* which invocation of getCommitGraph this is (1 or 2)
  first,        \* history: the answer of the first invocation
  panel,        \* the webview panel: "none", "blank" (created, no html yet),
                \* "open" or "disposed"
  HEAD,         \* the webview script's HEAD variable
  positions,    \* the webview script's positions: hash -> [x, y]
  links,        \* the painted line elements, one per (commit, child) pair
  scene,        \* the painted per-commit elements and their attributes
  selection,    \* the record shown in the commitDetails pane
  toHost,       \* messages posted by the webview, not yet handled by the host
  checkouts,    \* git.checkout calls the host awaits, in the order started:
                \* [hash, done] (done: the git process has switched HEAD)
  toWebview,    \* messages posted by the host, not yet handled by the webview
  backendHead,  \* the commit checked out in the repository
  errorsShown,  \* number of showErrorMessage notifications
  failed,       \* history: number of git.checkout calls that were rejected
  latePosts,    \* history: postMessage calls made on a disposed panel
  dblclicks,    \* number of dblclick events handled
  prevHEAD      \* history: HEAD before the last handled host message (0: none)

layoutVars == <<commits, height, subTree, stack, pc, answer, flushes, run, first>>

panelVars == <<panel, HEAD, positions, links, scene, selection, toHost, checkouts,
               toWebview, backendHead, errorsShown, failed, latePosts, dblclicks,
               prevHEAD>>

vars == <<commits, height, subTree, stack, pc, answer, flushes, run, first,
          panel, HEAD, positions, links, scene, selection, toHost, checkouts,
          toWebview, backendHead, errorsShown, failed, latePosts, dblclicks,
          prevHEAD>>

\* Bounds of the model.
MaxCommits == 4

MaxPanelCommits == 3

MaxDblClicks == 2

(***************************************************************************)
(* Inputs: every acyclic child relation with every order of children.      *)
(***************************************************************************)
Max(S) == CHOOSE m \in S : \A k \in S : k <= m

Range(s) == {s[k] : k \in DOMAIN s}

\* All orderings of the set S as sequences.
Orderings(S) ==
  {s \in [1..Cardinality(S) -> S] : \A a, b \in 1..Cardinality(S) : s[a] = s[b] => a = b}

\* The possible child lists of commit h among n commits.
ChildLists(n, h) == UNION {Orderings(S) : S \in SUBSET ((1..n) \ {h})}

RECURSIVE ChildMaps(_, _)
ChildMaps(n, k) ==
  IF k = 0 THEN {<<>>}
  ELSE {Append(g, s) : g \in ChildMaps(n, k - 1), s \in ChildLists(n, k)}

RECURSIVE Descendants(_, _, _)
Descendants(g, S, k) ==
  IF k = 0 THEN S
  ELSE Descendants(g, S \cup UNION {Range(g[h]) : h \in S}, k - 1)

Acyclic(g) == \A h \in DOMAIN g : h \notin Descendants(g, Range(g[h]), Len(g))

Histories(n) == {g \in ChildMaps(n, n) : Acyclic(g)}

(***************************************************************************)
(* getCommitGraph                                                          *)
(***************************************************************************)
Hashes == DOMAIN commits

Rows == 0..(Len(commits) - 1)

\* commits[hash] of a hash that is no key of the mapping: undefined.  (0 is
\* no hash, so no child list equals this value.)
NoEntry == <<0>>

\* Whether the mapping has the key.
HasEntry(h) == commits[h] # NoEntry

\* hashIdx.get(hash): the row of a commit in orderedCommits.
HashIdx(h) == h - 1

\* orderedCommits[0].hash
RootHash == 1

Top == stack[Len(stack)]

Pop == SubSeq(stack, 1, Len(stack) - 1)

\* A dfs that stops at commits without children only.
IsTip(h) == Len(commits[h]) = 0

\* The condition of the if at the head of dfs.
IsBoundary(h) == Len(commits[h]) = 0 \/ height[HashIdx(h)] # 0

\* The run buffer after the push at the head of the flush.
FlushRun(h) == Append(subTree, h)

\* A newHeight taken over every row of the layout.
NewHeightAll(st) == Max({0} \cup {height[idx] : idx \in Rows})

\* newHeight: the largest height over the rows from the run's first element
\* to its last one (0 when the range is empty).
NewHeight(st) ==
  Max({0} \cup {height[idx] : idx \in HashIdx(st[1])..HashIdx(st[Len(st)])})

\* The run members at positions 1 .. length - 2 (0-based) of the buffer.
Interior(st) == {st[k] : k \in 2..(Len(st) - 1)}

\* height after the interior loop of the flush.
InteriorAssigned(st) ==
  [idx \in Rows |->
     IF \E h \in Interior(st) : HashIdx(h) = idx THEN NewHeight(st) + 1
     ELSE height[idx]]

\* A flush that never writes the terminating commit.
TipNever(h, st) == FALSE

\* A flush that writes every terminating tip, assigned before or not.
TipAlways(h, st) == Len(commits[h]) = 0

\* Whether the flush writes the terminating commit.
TipAssigned(h, st) ==
  Len(commits[h]) = 0 /\ InteriorAssigned(st)[HashIdx(h)] = 0

\* height after the whole flush.
Flushed(h, st) ==
  [idx \in Rows |->
     IF TipAssigned(h, st) /\ idx = HashIdx(h) THEN NewHeight(st) + 1
     ELSE InteriorAssigned(st)[idx]]

\* A flush that leaves the run in the buffer.
KeptRun == FlushRun(Top.hash)

\* subTree.length = 0
EmptyRun == <<>>

\* dfs(h) where h has no children or already has a height: flush and return.
Flush ==
  /\ pc = "dfs" /\ stack # <<>>
  /\ HasEntry(Top.hash)
  /\ Top.i = 0 /\ IsBoundary(Top.hash)
  /\ LET h == Top.hash
         st == FlushRun(h)
     IN /\ height' = Flushed(h, st)
        /\ flushes' = Append(flushes,
              [lo |-> HashIdx(st[1]), hi |-> HashIdx(st[Len(st)]),
               lane |-> NewHeight(st) + 1,
               assigned |-> Interior(st) \cup (IF TipAssigned(h, st) THEN {h} ELSE {}),
               buffer |-> st])
  /\ subTree' = EmptyRun
  /\ stack' = Pop
  /\ UNCHANGED <<commits, pc, answer, run, first>>
  /\ UNCHANGED panelVars

\* The index of the next child the for loop of the top activation visits.
NextChild == IF Top.i = 0 THEN 1 ELSE Top.i

\* One iteration of the for loop: push the commit, call dfs on the child.
Descend ==
  /\ pc = "dfs" /\ stack # <<>>
  /\ HasEntry(Top.hash)
  /\ Top.i # 0 \/ ~IsBoundary(Top.hash)
  /\ NextChild <= Len(commits[Top.hash])
  /\ subTree' = Append(subTree, Top.hash)
  /\ stack' = Append(Append(Pop, [hash |-> Top.hash, i |-> NextChild + 1]),
                     [hash |-> commits[Top.hash][NextChild], i |-> 0])
  /\ UNCHANGED <<commits, height, pc, answer, flushes, run, first>>
  /\ UNCHANGED panelVars

\* The for loop is over: dfs returns.
Return ==
  /\ pc = "dfs" /\ stack # <<>>
  /\ HasEntry(Top.hash)
  /\ Top.i # 0 \/ ~IsBoundary(Top.hash)
  /\ NextChild > Len(commits[Top.hash])
  /\ stack' = Pop
  /\ UNCHANGED <<commits, height, subTree, pc, answer, flushes, run, first>>
  /\ UNCHANGED panelVars

\* dfs(h) where h is no key of the mapping: commits[h].length throws a
\* TypeError, which leaves getCommitGraph without an answer.
Throw ==
  /\ pc = "dfs" /\ stack # <<>>
  /\ ~HasEntry(Top.hash)
  /\ pc' = "failed"
  /\ UNCHANGED <<commits, height, subTree, stack, answer, flushes, run, first>>
  /\ UNCHANGED panelVars

\* A getCommitGraph without the assignment after the traversal.
KeepRoot(ht) == ht

\* height[0] = 1
ForceRoot(ht) == [ht EXCEPT ![0] = 1]

\* A getCommitGraph whose answer array outlives the call.
StaleAnswer == answer

\* let answer = []
NewAnswer == <<>>

\* The answer array: one entry per ordered commit.
BuildAnswer(ht) ==
  NewAnswer \o [k \in 1..Len(commits) |->
                  [hash |-> k, children |-> commits[k], height |-> ht[HashIdx(k)]]]

\* The traversal has returned: force the root's lane and build the answer.
Finish ==
  /\ pc = "dfs" /\ stack = <<>>
  /\ height' = ForceRoot(height)
  /\ answer' = BuildAnswer(ForceRoot(height))
  /\ pc' = "done"
  /\ UNCHANGED <<commits, subTree, stack, flushes, run, first>>
  /\ UNCHANGED panelVars

\* The locals of a call of getCommitGraph up to the call of dfs.
EnterLayout(g) ==
  /\ commits = g
  /\ height = [idx \in 0..(Len(g) - 1) |-> 0]
  /\ subTree = <<>>
  /\ stack = <<[hash |-> RootHash, i |-> 0]>>
  /\ pc = "dfs"
  /\ flushes = <<>>

\* The command is run again on the same repository: a second call.
Rerun ==
  /\ pc = "done" /\ run = 1
  /\ run' = 2
  /\ first' = answer
  /\ height' = [idx \in Rows |-> 0]
  /\ subTree' = <<>>
  /\ stack' = <<[hash |-> RootHash, i |-> 0]>>
  /\ pc' = "dfs"
  /\ flushes' = <<>>
  /\ UNCHANGED <<commits, answer>>
  /\ UNCHANGED panelVars


(***************************************************************************)
(* getGraphWebviewContent: the initial paint                               *)
(***************************************************************************)
x == 210

y == 50

xOffset == 100

yOffset == 100

branchColors ==
  <<"navy", "firebrick", "darkgreen", "darkviolet", "darkgoldenrod", "teal",
    "#abdda4", "#66c2a5", "#c637e8", "#5e4fa2qqq">>

\* The remainder operator of the script: the sign follows the dividend.
JSRem(a, b) == IF a >= 0 THEN a % b ELSE -((-a) % b)

\* (px - x) / xOffset % 10
ColorIdx(px) == JSRem((px - x) \div xOffset, 10)

\* branchColors[idx]: undefined outside the array.
BranchColor(idx) == IF idx \in 0..9 THEN branchColors[idx + 1] ELSE "undefined"

\* selection.attr(name, function) of the d3 library: a value of null or
\* undefined removes the attribute, any other value is set.
Attr(v) == IF v = "undefined" THEN "absent" ELSE v

Reverse(s) == [k \in 1..Len(s) |-> s[Len(s) + 1 - k]]

\* A script that keeps the array in the order the host sent it.
GraphAsSent(graph) == graph

\* commitGraphString after commitGraphString.reverse()
GraphString(graph) == Reverse(graph)

\* max_height: the width of the graph.
max_height(graph) == Max({1} \cup {graph[k].height : k \in DOMAIN graph})

\* The 0-based index of a commit in commitGraphString.
IndexOf(gs, h) == (CHOOSE k \in DOMAIN gs : gs[k].hash = h) - 1

\* positions[commit.hash]
Positions(gs) ==
  [h \in {gs[k].hash : k \in DOMAIN gs} |->
     [x |-> x + (gs[IndexOf(gs, h) + 1].height - 1) * xOffset,
      y |-> y + IndexOf(gs, h) * yOffset]]

\* The stroke of a link: the colour of the rightmost of its two end points.
LineStroke(pos, source, target) ==
  BranchColor(ColorIdx(IF pos[source].x > pos[target].x
                       THEN pos[source].x ELSE pos[target].x))

\* The line elements: one per link, with its stroke and end points.
Lines(gs, pos) ==
  UNION {{[source |-> gs[k].hash, target |-> gs[k].children[j],
           stroke |-> Attr(LineStroke(pos, gs[k].hash, gs[k].children[j])),
           x1 |-> pos[gs[k].hash].x, y1 |-> pos[gs[k].hash].y,
           x2 |-> pos[gs[k].children[j]].x, y2 |-> pos[gs[k].children[j]].y] :
             j \in DOMAIN gs[k].children} : k \in DOMAIN gs}

ElemClass(h, head) == IF h = head THEN {"HEADElem"} ELSE {"usualElem"}

\* The circle, commit message, HEAD border and HEAD tag elements of commit h.
PaintElems(h, head, pos, mh) ==
  [circle |->
     [cls |-> ElemClass(h, head),
      stroke |-> Attr(BranchColor(ColorIdx(pos[h].x))),
      fill |-> IF h = head THEN "white" ELSE Attr(BranchColor(ColorIdx(pos[h].x))),
      cx |-> pos[h].x, cy |-> pos[h].y],
   commitHash |->
     [cls |-> ElemClass(h, head),
      x |-> IF h = head THEN mh * xOffset + x + 70 ELSE mh * xOffset + x - 10,
      y |-> pos[h].y],
   HEADBorder |->
     [cls |-> ElemClass(h, head),
      x |-> mh * xOffset + x - 10, y |-> pos[h].y - 15,
      width |-> IF h = head THEN 72 ELSE 0,
      height |-> IF h = head THEN 30 ELSE 0],
   HEADText |->
     [cls |-> ElemClass(h, head),
      x |-> mh * xOffset + x, y |-> pos[h].y,
      text |-> IF h = head THEN "HEAD" ELSE ""]]

\* getCommitsData: one record per commit, in the order of git log.
CommitsData ==
  [k \in 1..Len(commits) |->
     [hash |-> Len(commits) + 1 - k,
      authorName |-> <<"an", Len(commits) + 1 - k>>,
      authorEmail |-> <<"ae", Len(commits) + 1 - k>>,
      authorDate |-> <<"ai", Len(commits) + 1 - k>>,
      message |-> <<"s", Len(commits) + 1 - k>>]]

\* commitsDateString.find(commit => commit.hash === h)
Find(data, h) ==
  data[CHOOSE k \in DOMAIN data :
         data[k].hash = h /\ \A j \in 1..(k - 1) : data[j].hash # h]

\* The commitDetails pane before any click: every span is empty.
EmptyDetails ==
  [hash |-> 0, authorName |-> <<>>, authorEmail |-> <<>>, authorDate |-> <<>>,
   message |-> <<>>]

\* The tsar.gitgraph command once the graph is computed: read HEAD, set the html.
Paint ==
  /\ pc = "done" /\ panel \in {"none", "blank"}
  /\ panel' = "open"
  /\ HEAD' = backendHead
  /\ positions' = Positions(GraphString(answer))
  /\ links' = Lines(GraphString(answer), Positions(GraphString(answer)))
  /\ scene' = [h \in Hashes |->
                 PaintElems(h, backendHead, Positions(GraphString(answer)),
                            max_height(answer))]
  /\ UNCHANGED <<selection, toHost, checkouts, toWebview, backendHead,
                 errorsShown, failed, latePosts, dblclicks, prevHEAD>>
  /\ UNCHANGED layoutVars

(***************************************************************************)
(* The webview's handlers                                                  *)
(***************************************************************************)
\* showCommitDetails(commit)
showCommitDetails(commit) ==
  /\ selection' = commit
  /\ UNCHANGED <<panel, HEAD, positions, links, scene, toHost, checkouts, toWebview,
                 backendHead, errorsShown, failed, latePosts, dblclicks, prevHEAD>>

\* A click handler that also posts the checkout request of the dblclick handler.
ClickPosts(h) ==
  /\ panel = "open"
  /\ Len(toHost) < MaxDblClicks
  /\ selection' = Find(CommitsData, h)
  /\ toHost' = Append(toHost, [command |-> "gitCheckout", commitHash |-> h])
  /\ UNCHANGED <<panel, HEAD, positions, links, scene, checkouts, toWebview,
                 backendHead, errorsShown, failed, latePosts, dblclicks, prevHEAD>>
  /\ UNCHANGED layoutVars

\* on("click"): show the details of the commit.
Click(h) ==
  /\ panel = "open"
  /\ showCommitDetails(Find(CommitsData, h))
  /\ UNCHANGED layoutVars

\* on("dblclick"): post the checkout request to the host.
DblClick(h) ==
  /\ panel = "open"
  /\ dblclicks < MaxDblClicks
  /\ dblclicks' = dblclicks + 1
  /\ toHost' = Append(toHost, [command |-> "gitCheckout", commitHash |-> h])
  /\ UNCHANGED <<panel, HEAD, positions, links, scene, selection, checkouts,
                 toWebview, backendHead, errorsShown, failed, latePosts, prevHEAD>>
  /\ UNCHANGED layoutVars

\* A lookup of the old elements that matches every element.
IsAnyElement(e) == TRUE

\* document.getElementsByClassName("HEADElem")
IsOldElement(e) == "HEADElem" \in e.cls

\* classList.remove("HEADElem"); classList.add("usualElem")
UsualClass(cls) == (cls \ {"HEADElem"}) \cup {"usualElem"}

\* classList.add("HEADElem"); classList.remove("usualElem")
HeadClass(cls) == (cls \cup {"HEADElem"}) \ {"usualElem"}

\* The first loop of the listener: the old HEAD elements lose the decoration.
RevertOld(sc, head, pos, mh) ==
  [h \in DOMAIN sc |->
     [circle |->
        IF IsOldElement(sc[h].circle)
        THEN [sc[h].circle EXCEPT !.fill = BranchColor(ColorIdx(pos[head].x)),
                                  !.cls = UsualClass(@)]
        ELSE sc[h].circle,
      commitHash |->
        IF IsOldElement(sc[h].commitHash)
        THEN [sc[h].commitHash EXCEPT !.x = mh * xOffset + x - 10,
                                      !.cls = UsualClass(@)]
        ELSE sc[h].commitHash,
      HEADBorder |->
        IF IsOldElement(sc[h].HEADBorder)
        THEN [sc[h].HEADBorder EXCEPT !.width = 0, !.height = 0,
                                      !.cls = UsualClass(@)]
        ELSE sc[h].HEADBorder,
      HEADText |->
        IF IsOldElement(sc[h].HEADText)
        THEN [sc[h].HEADText EXCEPT !.text = "", !.cls = UsualClass(@)]
        ELSE sc[h].HEADText]]

\* document.getElementsByClassName(HEAD): the elements tagged with the hash.
IsNewElement(h, head) == h = head

\* The second loop of the listener: the new HEAD elements get the decoration.
DecorateNew(sc, head, mh) ==
  [h \in DOMAIN sc |->
     IF IsNewElement(h, head)
     THEN [circle |-> [sc[h].circle EXCEPT !.fill = "white", !.cls = HeadClass(@)],
           commitHash |-> [sc[h].commitHash EXCEPT !.x = mh * xOffset + x + 70,
                                                   !.cls = HeadClass(@)],
           HEADBorder |-> [sc[h].HEADBorder EXCEPT !.width = 72, !.height = 30,
                                                   !.cls = HeadClass(@)],
           HEADText |-> [sc[h].HEADText EXCEPT !.text = "HEAD", !.cls = HeadClass(@)]]
     ELSE sc[h]]

\* A listener that skips the first loop.
PatchWithoutRevert(sc, head, newHead, pos, mh) == DecorateNew(sc, newHead, mh)

\* case 'gitCheckout' of the listener: the page after a successful checkout.
Patch(sc, head, newHead, pos, mh) ==
  DecorateNew(RevertOld(sc, head, pos, mh), newHead, mh)

\* window.addEventListener('message', ...): the webview handles a host message.
WebviewReceive ==
  /\ panel = "open" /\ toWebview # <<>>
  /\ Head(toWebview).command = "gitCheckout"
  /\ scene' = Patch(scene, HEAD, Head(toWebview).commitHash, positions,
                    max_height(answer))
  /\ HEAD' = Head(toWebview).commitHash
  /\ prevHEAD' = HEAD
  /\ toWebview' = Tail(toWebview)
  /\ UNCHANGED <<panel, positions, links, selection, toHost, checkouts,
                 backendHead, errorsShown, failed, latePosts, dblclicks>>
  /\ UNCHANGED layoutVars

(***************************************************************************)
(* The host's handlers                                                     *)
(***************************************************************************)
Remove(s, k) == SubSeq(s, 1, k - 1) \o SubSeq(s, k + 1, Len(s))

\* A host whose handler returns without starting the checkout.
HostReceiveIgnores ==
  /\ panel = "open" /\ toHost # <<>>
  /\ toHost' = Tail(toHost)
  /\ UNCHANGED <<panel, HEAD, positions, links, scene, selection, checkouts,
                 toWebview, backendHead, errorsShown, failed, latePosts, dblclicks,
                 prevHEAD>>
  /\ UNCHANGED layoutVars

\* onDidReceiveMessage, case 'gitCheckout': git.checkout is started and awaited.
HostReceive ==
  /\ panel = "open" /\ toHost # <<>>
  /\ Head(toHost).command = "gitCheckout"
  /\ checkouts' = Append(checkouts,
                          [hash |-> Head(toHost).commitHash, done |-> FALSE])
  /\ toHost' = Tail(toHost)
  /\ UNCHANGED <<panel, HEAD, positions, links, scene, selection, toWebview,
                 backendHead, errorsShown, failed, latePosts, dblclicks, prevHEAD>>
  /\ UNCHANGED layoutVars

\* The git process of checkout k switches the repository to the commit.  It
\* runs beside the other checkouts started from the same simple-git instance;
\* the host sees its exit later, when the awaited promise resolves.
GitCheckout(k) ==
  /\ k \in DOMAIN checkouts
  /\ ~checkouts[k].done
  /\ backendHead' = checkouts[k].hash
  /\ checkouts' = [checkouts EXCEPT ![k].done = TRUE]
  /\ UNCHANGED <<panel, HEAD, positions, links, scene, selection, toHost,
                 toWebview, errorsShown, failed, latePosts, dblclicks, prevHEAD>>
  /\ UNCHANGED layoutVars

\* The awaited checkout k resolves: the handler posts the message to the webview.
\* On a disposed panel the call is made all the same; it may throw into the catch.
CheckoutSucceed(k) ==
  /\ k \in DOMAIN checkouts
  /\ checkouts[k].done
  /\ UNCHANGED backendHead
  /\ checkouts' = Remove(checkouts, k)
  /\ \/ /\ panel = "open"
        /\ toWebview' = Append(toWebview,
              [command |-> "gitCheckout", commitHash |-> checkouts[k].hash])
        /\ UNCHANGED <<errorsShown, latePosts>>
     \/ /\ panel = "disposed"
        /\ latePosts' = latePosts + 1
        /\ \E thrown \in BOOLEAN :
              errorsShown' = IF thrown THEN errorsShown + 1 ELSE errorsShown
        /\ UNCHANGED toWebview
  /\ UNCHANGED <<panel, HEAD, positions, links, scene, selection, toHost, failed,
                 dblclicks, prevHEAD>>
  /\ UNCHANGED layoutVars

\* A handler whose postMessage is outside the try: it runs after the catch too.
CheckoutFailPosts(k) ==
  /\ k \in DOMAIN checkouts
  /\ ~checkouts[k].done
  /\ checkouts' = Remove(checkouts, k)
  /\ errorsShown' = errorsShown + 1
  /\ failed' = failed + 1
  /\ toWebview' = IF panel = "open"
                  THEN Append(toWebview,
                         [command |-> "gitCheckout", commitHash |-> checkouts[k].hash])
                  ELSE toWebview
  /\ UNCHANGED <<panel, HEAD, positions, links, scene, selection, toHost,
                 backendHead, latePosts, dblclicks, prevHEAD>>
  /\ UNCHANGED layoutVars

\* The awaited checkout k is rejected: the catch shows the error message.
CheckoutFail(k) ==
  /\ k \in DOMAIN checkouts
  /\ ~checkouts[k].done
  /\ checkouts' = Remove(checkouts, k)
  /\ errorsShown' = errorsShown + 1
  /\ failed' = failed + 1
  /\ UNCHANGED <<panel, HEAD, positions, links, scene, selection, toHost,
                 toWebview, backendHead, latePosts, dblclicks, prevHEAD>>
  /\ UNCHANGED layoutVars

\* The user closes the panel: the page, its script and the undelivered
\* messages are gone.
Dispose ==
  /\ panel = "open"
  /\ panel' = "disposed"
  /\ scene' = <<>>
  /\ positions' = <<>>
  /\ links' = {}
  /\ HEAD' = 0
  /\ prevHEAD' = 0
  /\ selection' = EmptyDetails
  /\ toHost' = <<>>
  /\ toWebview' = <<>>
  /\ UNCHANGED <<checkouts, backendHead, errorsShown, failed, latePosts, dblclicks>>
  /\ UNCHANGED layoutVars

\* Before the command creates the panel.
NoPanel ==
  /\ panel = "none"
  /\ HEAD = 0
  /\ positions = <<>>
  /\ links = {}
  /\ scene = <<>>
  /\ selection = EmptyDetails
  /\ toHost = <<>>
  /\ checkouts = <<>>
  /\ toWebview = <<>>
  /\ errorsShown = 0
  /\ failed = 0
  /\ latePosts = 0
  /\ dblclicks = 0
  /\ prevHEAD = 0

InitLayout ==
  /\ \E n \in 1..MaxCommits : \E g \in Histories(n) : EnterLayout(g)
  /\ answer = <<>>
  /\ run = 1
  /\ first = <<>>
  /\ NoPanel
  /\ backendHead = RootHash

NextLayout == Flush \/ Descend \/ Return \/ Finish \/ Rerun

SpecLayout == InitLayout /\ [][NextLayout]_vars

\* getCommitGraph runs to its end once it is called: the traversal is
\* synchronous code.
SpecLayoutFair == SpecLayout /\ WF_vars(Flush \/ Descend \/ Return \/ Finish)

Init ==
  /\ \E n \in 1..MaxPanelCommits : \E g \in Histories(n) : EnterLayout(g)
  /\ answer = <<>>
  /\ run = 1
  /\ first = <<>>
  /\ NoPanel
  /\ backendHead \in Hashes

Next ==
  \/ Flush \/ Descend \/ Return \/ Finish
  \/ Paint
  \/ \E h \in Hashes : Click(h)
  \/ \E h \in Hashes : DblClick(h)
  \/ HostReceive
  \/ \E k \in DOMAIN checkouts : GitCheckout(k)
  \/ \E k \in DOMAIN checkouts : CheckoutSucceed(k)
  \/ \E k \in DOMAIN checkouts : CheckoutFail(k)
  \/ WebviewReceive
  \/ Dispose

Spec == Init /\ [][Next]_vars

\* The extension host delivers every posted message to the handler, and every
\* git process that was started ends, so the awaited promise settles.
Fairness ==
  /\ WF_vars(HostReceive)
  /\ WF_vars(\E k \in DOMAIN checkouts :
                GitCheckout(k) \/ CheckoutSucceed(k) \/ CheckoutFail(k))

SpecFair == Spec /\ Fairness

\* The tsar.gitgraph handler up to git.checkIsRepo(): nothing is queried yet.
InitCommand ==
  /\ pc = "command"
  /\ commits = <<>>
  /\ height = <<>>
  /\ subTree = <<>>
  /\ stack = <<>>
  /\ flushes = <<>>
  /\ answer = <<>>
  /\ run = 1
  /\ first = <<>>
  /\ NoPanel
  /\ backendHead = 0

\* A handler that creates the panel before it looks at isRepo.
InitRepositoryWithPanel ==
  /\ pc = "command"
  /\ pc' = "init"
  /\ panel' = "blank"
  /\ UNCHANGED <<HEAD, positions, links, scene, selection, toHost, checkouts,
                 toWebview, backendHead, errorsShown, failed, latePosts, dblclicks,
                 prevHEAD>>
  /\ UNCHANGED <<commits, height, subTree, stack, answer, flushes, run, first>>

\* checkIsRepo() resolved to false: git.init() is called, and nothing else.
InitRepository ==
  /\ pc = "command"
  /\ pc' = "init"
  /\ UNCHANGED <<commits, height, subTree, stack, answer, flushes, run, first>>
  /\ UNCHANGED panelVars

\* checkIsRepo() resolved to true: the panel is created and getCommitGraph is
\* called, which awaits getCommitsChildren.
CreatePanel ==
  /\ pc = "command"
  /\ pc' = "query"
  /\ panel' = "blank"
  /\ UNCHANGED <<HEAD, positions, links, scene, selection, toHost, checkouts,
                 toWebview, backendHead, errorsShown, failed, latePosts, dblclicks,
                 prevHEAD>>
  /\ UNCHANGED <<commits, height, subTree, stack, answer, flushes, run, first>>

\* getCommitsChildren resolves and getSortedCommits returns: the locals of
\* getCommitGraph up to the call of dfs.  The history g and the checked-out
\* commit b are what the repository holds.
QueryResolve ==
  /\ pc = "query"
  /\ \E n \in 1..MaxPanelCommits : \E g \in Histories(n) : \E b \in 1..n :
        /\ commits' = g
        /\ height' = [idx \in 0..(n - 1) |-> 0]
        /\ backendHead' = b
  /\ subTree' = <<>>
  /\ stack' = <<[hash |-> RootHash, i |-> 0]>>
  /\ pc' = "dfs"
  /\ flushes' = <<>>
  /\ UNCHANGED <<answer, run, first>>
  /\ UNCHANGED <<panel, HEAD, positions, links, scene, selection, toHost, checkouts,
                 toWebview, errorsShown, failed, latePosts, dblclicks, prevHEAD>>

\* getCommitsChildren rejects (reject(null)) or execSync in getSortedCommits
\* throws: the await in the handler throws.  The handler has no catch and its
\* promise is not returned to the command, so nothing is shown.
QueryFail ==
  /\ pc = "query"
  /\ pc' = "failed"
  /\ UNCHANGED <<commits, height, subTree, stack, answer, flushes, run, first>>
  /\ UNCHANGED panelVars

NextCommand ==
  \/ InitRepository \/ CreatePanel
  \/ QueryResolve \/ QueryFail
  \/ Flush \/ Descend \/ Return \/ Finish
  \/ Paint

SpecCommand == InitCommand /\ [][NextCommand]_vars

\* The mapping g without the keys in U.
WithoutKeys(g, U) == [h \in DOMAIN g |-> IF h \in U THEN NoEntry ELSE g[h]]

\* getCommitGraph on a mapping that lacks the keys of some ordered commits.
InitPartial ==
  /\ \E n \in 1..MaxCommits : \E g \in Histories(n) : \E U \in SUBSET (1..n) :
        EnterLayout(WithoutKeys(g, U))
  /\ answer = <<>>
  /\ run = 1
  /\ first = <<>>
  /\ NoPanel
  /\ backendHead = RootHash

NextPartial == Flush \/ Descend \/ Return \/ Throw \/ Finish

SpecPartial == InitPartial /\ [][NextPartial]_vars

(***************************************************************************)
(* Properties                                                              *)
(***************************************************************************)

\* C1: every commit of the layout returned by getCommitGraph has height >= 1.
\* Violated: a commit the traversal from row 0 never reaches keeps height 0.
C1_AllHeightsPositive ==
  pc = "done" => \A k \in DOMAIN answer : answer[k].height >= 1

\* Two flushes whose row ranges [lo, hi] share a row.
RangesOverlap(f, g) ==
  /\ f.lo <= f.hi /\ g.lo <= g.hi
  /\ f.lo <= g.hi /\ g.lo <= f.hi

\* C2: two flushed runs whose row-index ranges overlap receive different
\* heights: no commit assigned by one flush shares its height with a commit
\* assigned by the other.  Violated: the maximum is taken over the rows of the
\* later run only, so a lane written outside them (but inside the earlier
\* run's range) is not seen.
C2_OverlappingRunsDiffer ==
  \A a, b \in DOMAIN flushes :
     (/\ a < b
      /\ RangesOverlap(flushes[a], flushes[b])
      /\ flushes[a].assigned # {} /\ flushes[b].assigned # {})
     => flushes[a].lane # flushes[b].lane

\* C3: the commit at row 0 of the chronological order has height 1 in the
\* returned layout, whatever the traversal assigned to it.
C3_RootLaneOne ==
  pc = "done" =>
    /\ \E k \in DOMAIN answer : HashIdx(answer[k].hash) = 0
    /\ \A k \in DOMAIN answer : HashIdx(answer[k].hash) = 0 => answer[k].height = 1

\* A finished layout of a root with children: no flush wrote the root's lane.
C3_Witness ==
  /\ pc = "done"
  /\ Len(commits[RootHash]) > 0
  /\ \A k \in DOMAIN flushes : RootHash \notin flushes[k].assigned
  /\ answer[1].height = 1

\* The HEAD decoration of the four elements of commit h.
Decorated(h) ==
  /\ \A kind \in {"circle", "commitHash", "HEADBorder", "HEADText"} :
        "HEADElem" \in scene[h][kind].cls /\ "usualElem" \notin scene[h][kind].cls
  /\ scene[h].circle.fill = "white"
  /\ scene[h].commitHash.x = max_height(answer) * xOffset + x + 70
  /\ scene[h].HEADBorder.width = 72 /\ scene[h].HEADBorder.height = 30
  /\ scene[h].HEADText.text = "HEAD"

\* No element of commit h carries any part of the HEAD decoration.
Undecorated(h) ==
  /\ \A kind \in {"circle", "commitHash", "HEADBorder", "HEADText"} :
        "HEADElem" \notin scene[h][kind].cls /\ "usualElem" \in scene[h][kind].cls
  /\ scene[h].circle.fill # "white"
  /\ scene[h].commitHash.x = max_height(answer) * xOffset + x - 10
  /\ scene[h].HEADBorder.width = 0 /\ scene[h].HEADBorder.height = 0
  /\ scene[h].HEADText.text = ""

\* A step in which the webview's listener handles a host message.
PatchStep == panel = "open" /\ panel' = "open" /\ Len(toWebview') < Len(toWebview)

\* C4: while the panel is open exactly one commit carries the HEAD decoration
\* and it is the commit the HEAD variable names; handling the message of a
\* successful checkout of B sets the variable to B.
C4_OneHeadDecoration ==
  /\ [](panel = "open" =>
          /\ HEAD \in Hashes
          /\ \A h \in Hashes : IF h = HEAD THEN Decorated(h) ELSE Undecorated(h))
  /\ [][PatchStep => HEAD' = Head(toWebview).commitHash]_vars

\* The page after a checkout from one commit to another one.
C4_Witness ==
  /\ panel = "open"
  /\ prevHEAD # 0 /\ prevHEAD # HEAD
  /\ Decorated(HEAD) /\ Undecorated(prevHEAD)

\* C5: at most one checkout request is outstanding between the webview and the
\* host.  Violated: the dblclick handler posts unconditionally and the host
\* starts a git.checkout for every message.
C5_AtMostOneOutstanding == Len(toHost) + Len(checkouts) <= 1

\* C6: a rejected checkout changes nothing in the webview (HEAD variable,
\* elements, positions, lines), posts no message to it, and shows one error.
C6_FailureLeavesSceneAlone ==
  [][failed' > failed =>
       /\ HEAD' = HEAD /\ scene' = scene
       /\ positions' = positions /\ links' = links
       /\ toWebview' = toWebview
       /\ errorsShown' = errorsShown + 1]_vars

\* The only request was rejected: the page is the painted one, one error shown.
C6_Witness ==
  /\ panel = "open"
  /\ dblclicks = 1 /\ failed = 1 /\ errorsShown = 1
  /\ toHost = <<>> /\ checkouts = <<>> /\ toWebview = <<>>
  /\ prevHEAD = 0
  /\ Decorated(HEAD)

\* C7: after the panel is disposed the host makes no attempt to post the
\* outcome of a pending checkout.  Violated: postMessage is called whenever
\* the checkout resolves.
C7_NoPostAfterDispose == latePosts = 0

\* The attributes of the elements of commit h that place them.
Geometry(sc, h) ==
  <<sc[h].circle.cx, sc[h].circle.cy, sc[h].circle.stroke,
    sc[h].commitHash.y,
    sc[h].HEADBorder.x, sc[h].HEADBorder.y,
    sc[h].HEADText.x, sc[h].HEADText.y>>

\* C8: handling the message of a successful checkout leaves the layout alone:
\* heights, positions, lines and the placement of every element are unchanged,
\* and the elements of every commit other than the old and the new HEAD are
\* unchanged altogether.
C8_PatchKeepsLayout ==
  [][PatchStep =>
       /\ answer' = answer /\ height' = height /\ commits' = commits
       /\ positions' = positions /\ links' = links
       /\ \A h \in Hashes :
            /\ Geometry(scene', h) = Geometry(scene, h)
            /\ h \notin {HEAD, HEAD'} => scene'[h] = scene[h]]_vars

\* A patched page with a link and a commit that is neither the old nor the new HEAD.
C8_Witness ==
  /\ panel = "open"
  /\ prevHEAD # 0 /\ prevHEAD # HEAD
  /\ Hashes \ {HEAD, prevHEAD} # {}
  /\ links # {}

\* C9: in every state of an open panel a click is handled; it replaces the
\* selection with the record of a commit and changes nothing else, and no
\* message is posted.  (Closing the panel removes the pane with the page.)
C9_ClickOnlySelects ==
  /\ [](panel = "open" => \A h \in Hashes : ENABLED Click(h))
  /\ [][(selection' # selection /\ panel' = "open") =>
          /\ \E h \in Hashes :
                /\ selection'.hash = h
                /\ \E k \in DOMAIN CommitsData : selection' = CommitsData[k]
          /\ UNCHANGED <<panel, HEAD, positions, links, scene, toHost, checkouts,
                         toWebview, backendHead, errorsShown, failed, latePosts,
                         dblclicks, prevHEAD>>
          /\ UNCHANGED layoutVars]_vars

\* A commit is selected while a checkout is pending in the host.
C9_Witness ==
  /\ panel = "open"
  /\ checkouts # <<>>
  /\ selection.hash \in Hashes
  /\ selection.hash # HEAD

IsFork ==
  /\ Len(commits) = 3
  /\ Len(commits[1]) = 2 /\ Range(commits[1]) = {2, 3}
  /\ commits[2] = <<>> /\ commits[3] = <<>>

\* C11: in the layout of a fork A -> B, A -> C with both children tips, A has
\* height 1 and B and C have different heights, for either order of A's
\* children and either chronological order of B and C.  Violated: when the
\* later child is listed first it is flushed over rows 0..2, all unassigned,
\* and the earlier child is then flushed over rows 0..1 only, so both get 1.
C11_ForkParallelLanes ==
  (pc = "done" /\ IsFork) =>
    /\ answer[1].height = 1
    /\ answer[2].height # answer[3].height

\* The merge commit of a diamond A -> B -> D, A -> C -> D rooted at the oldest
\* commit, 0 when the history is not such a diamond.
MergeCommit ==
  IF /\ Len(commits) = 4
     /\ \E b, c, d \in 2..4 :
           /\ b # c /\ b # d /\ c # d
           /\ Len(commits[1]) = 2 /\ Range(commits[1]) = {b, c}
           /\ commits[b] = <<d>> /\ commits[c] = <<d>> /\ commits[d] = <<>>
  THEN CHOOSE d \in 2..4 : commits[d] = <<>>
  ELSE 0

\* The flushes (by index) whose run ends at commit h.
FlushesAt(h) == {k \in DOMAIN flushes : flushes[k].buffer[Len(flushes[k].buffer)] = h}

\* C12: in a merge history A -> B -> D, A -> C -> D the merge commit D gets its
\* height at the flush of the first run that reaches it; the flush of the
\* second run that arrives at D assigns that run's interior commits only and
\* leaves the height of D as the first flush set it.
C12_MergeKeepsFirstHeight ==
  MergeCommit # 0 =>
    \A k \in FlushesAt(MergeCommit) :
       LET f == flushes[k]
           k1 == CHOOSE j \in FlushesAt(MergeCommit) :
                    \A i \in FlushesAt(MergeCommit) : j <= i
       IN /\ k = k1 => MergeCommit \in f.assigned
          /\ k # k1 => f.assigned = Interior(f.buffer)
          /\ k # k1 => MergeCommit \notin f.assigned
          /\ height[HashIdx(MergeCommit)] = flushes[k1].lane

\* Both runs of a diamond have been flushed: the second one wrote its interior.
C12_Witness ==
  /\ MergeCommit # 0
  /\ pc = "done"
  /\ Cardinality(FlushesAt(MergeCommit)) = 2
  /\ \E k \in FlushesAt(MergeCommit) :
        /\ flushes[k].assigned # {}
        /\ MergeCommit \notin flushes[k].assigned
  /\ answer[MergeCommit].height >= 1

\* A linear history: every commit but the youngest has the next commit of the
\* chronological order as its single child.
IsLinear ==
  \A h \in Hashes : commits[h] = IF h < Len(commits) THEN <<h + 1>> ELSE <<>>

\* C13: in a linear history of n >= 1 commits whose timestamps ascend along the
\* chain every commit has height 1.
C13_LinearAllOne ==
  (pc = "done" /\ IsLinear) =>
    /\ Len(answer) = Len(commits)
    /\ \A k \in DOMAIN answer : answer[k].height = 1

\* The layout of a chain with an interior commit, laid out by a single flush.
C13_Witness ==
  /\ pc = "done" /\ IsLinear
  /\ Len(commits) >= 3
  /\ Len(flushes) = 1
  /\ flushes[1].buffer = [k \in 1..Len(commits) |-> k]
  /\ \A k \in DOMAIN answer : answer[k].height = 1

\* A step that executes a flush.
FlushStep == Len(flushes') = Len(flushes) + 1

\* The height a flush of the run st must write: one more than the largest
\* height, before the flush, over the rows from the run's first element to its
\* last one.
RunLane(st) ==
  1 + Max({0} \cup {height[idx] : idx \in HashIdx(st[1])..HashIdx(st[Len(st)])})

\* C19: every flush writes newHeight = 1 + the maximum of height over the rows
\* from row(run.first) to row(run.last) as they stand at flush time (0 for an
\* unassigned row); it writes it to every run member between the first element
\* and the terminating commit, to the terminating commit exactly when that
\* commit had no height yet, and to no other row.
C19_FlushWritesNewHeight ==
  [][FlushStep =>
       LET st == flushes'[Len(flushes')].buffer
           last == st[Len(st)]
       IN \A idx \in Rows :
            height'[idx] =
              IF idx = HashIdx(last)
              THEN (IF height[idx] = 0 THEN RunLane(st) ELSE height[idx])
              ELSE IF \E k \in 2..(Len(st) - 1) : HashIdx(st[k]) = idx
                   THEN RunLane(st)
                   ELSE height[idx]]_vars

\* A flush that wrote a lane above 1 to its interior and ended at a commit
\* that kept the height it already had.
C19_Witness ==
  \E k \in DOMAIN flushes :
     LET f == flushes[k]
     IN /\ f.lane >= 2
        /\ Len(f.buffer) >= 3
        /\ f.assigned = Interior(f.buffer)
        /\ height[HashIdx(f.buffer[Len(f.buffer)])] \notin {0, f.lane}

\* The hashes of the activations j .. Len(stack) - 1: the callers of the top
\* activation from the j-th one on.
Callers(j) == [k \in 1..(Len(stack) - j) |-> stack[j + k - 1].hash]

\* C20: the run buffer is empty whenever a dfs call has returned (the caller is
\* back in its loop, or the traversal is over); when a call is entered the
\* buffer is the chain of its callers from the traversal root, or from a caller
\* that is at a later child of its loop, so a flushed run is a parent-to-child
\* path that holds nothing of a sibling branch.
C20_BufferIsCurrentPath ==
  /\ (pc = "done" \/ stack = <<>>) => subTree = <<>>
  /\ (pc = "dfs" /\ stack # <<>> /\ Top.i # 0) => subTree = <<>>
  /\ (pc = "dfs" /\ stack # <<>> /\ Top.i = 0) =>
        \E j \in 1..Len(stack) :
           /\ Len(stack) > 1 => j < Len(stack)
           /\ subTree = Callers(j)
           /\ j = 1 \/ stack[j].i >= 3
  /\ \A k \in DOMAIN flushes :
        LET st == flushes[k].buffer
        IN /\ \A m \in 1..(Len(st) - 1) : st[m + 1] \in Range(commits[st[m]])
           /\ \A m, n \in DOMAIN st : st[m] = st[n] => m = n

\* After the flush of one branch a sibling branch was flushed with a run that
\* starts at their common parent, which is not the root.
C20_Witness ==
  /\ Len(flushes) >= 2
  /\ LET a == flushes[1].buffer
         b == flushes[2].buffer
     IN /\ Len(a) >= 3 /\ Len(b) = 2
        /\ b[1] # RootHash
        /\ b[1] = a[Len(a) - 1]
        /\ b[2] # a[Len(a)]

\* The node of commit h is painted at lane column height - 1 and at row r.
NodeAt(h, r) ==
  /\ positions[h] = [x |-> x + (answer[h].height - 1) * xOffset,
                     y |-> y + r * yOffset]
  /\ scene[h].circle.cx = positions[h].x
  /\ scene[h].circle.cy = positions[h].y

\* C15 as stated: the node of each commit is at
\* (x + (height - 1) * xOffset, y + rowIndex * yOffset) with rowIndex the
\* commit's 0-based position in the ascending-timestamp order.  Violated: the
\* script reverses the array before it takes the index.
C15_NodeAtAscendingRow ==
  panel = "open" => \A h \in Hashes : NodeAt(h, HashIdx(h))

\* C15, amended: the node of each commit is at
\* (x + (height - 1) * xOffset, y + r * yOffset) where r is the commit's
\* 0-based position in the descending-timestamp order, n - 1 - rowIndex.
C15_NodeAtDescendingRow ==
  panel = "open" => \A h \in Hashes : NodeAt(h, Len(answer) - 1 - HashIdx(h))

\* A painted graph of three commits on two lanes: the oldest commit is on the
\* bottom row, the youngest on the top row.
C15_Witness ==
  /\ panel = "open"
  /\ Len(answer) = 3
  /\ \E h \in Hashes : answer[h].height = 2
  /\ positions[RootHash].y = y + 2 * yOffset
  /\ positions[3].y = y

\* The palette size: the number of entries of branchColors.
PaletteSize == Len(branchColors)

\* C16: the stroke of the line of every (commit, child) pair is the palette
\* entry at index (max(height(commit), height(child)) - 1) mod PaletteSize,
\* an index in 0 .. PaletteSize - 1.  Violated: a pair of commits the
\* traversal never reached has heights 0 (see C1), the script's remainder of
\* -1 is -1, and branchColors[-1] is undefined.
C16_EdgePaletteIndex ==
  panel = "open" =>
    \A l \in links :
       LET idx == (Max({answer[l.source].height, answer[l.target].height}) - 1)
                    % PaletteSize
       IN /\ idx \in 0..(PaletteSize - 1)
          /\ l.stroke = branchColors[idx + 1]

\* The ordered commits that are no key of the child mapping.
Unmapped == {h \in Hashes : ~HasEntry(h)}

\* C14: a commit of the commit set that is absent from the child mapping is
\* treated as a commit without children: the call ends with a layout, never
\* with an error, and in the layout the commit has an empty child list and a
\* lane like any branch tip the traversal reaches.  Violated: dfs reads
\* commits[h].length of the absent key.
C14_AbsentIsTip ==
  /\ pc # "failed"
  /\ pc = "done" =>
       \A h \in Unmapped : answer[h].children # NoEntry

\* Nothing of a graph exists: no query result, no layout, no page.
NothingRendered ==
  /\ commits = <<>> /\ height = <<>> /\ stack = <<>>
  /\ flushes = <<>> /\ answer = <<>>
  /\ positions = <<>> /\ links = {} /\ scene = <<>>

\* C17: when the path is not a repository the command makes no commit query,
\* computes no layout, creates no panel and sets no webview content: it calls
\* the repository initialisation and the session ends there.
C17_NotRepoOnlyInit ==
  pc = "init" =>
    /\ panel = "none"
    /\ NothingRendered
    /\ ~ENABLED NextCommand

\* The command has run on a path that is not a repository.
C17_Witness ==
  /\ pc = "init"
  /\ panel = "none"
  /\ errorsShown = 0

\* C18: when listing the commits or the children fails the failure is shown
\* to the user, and no panel with a graph and no layout exists afterwards.
\* Violated: the rejection is caught nowhere; no message is shown and the
\* panel created before the query stays, blank.
C18_QueryFailureSurfaced ==
  pc = "failed" =>
    /\ errorsShown >= 1
    /\ panel # "open"
    /\ answer = <<>> /\ positions = <<>> /\ links = {} /\ scene = <<>>

\* The elements the initial paint produces from the layout with HEAD = head.
Repaint(head) ==
  [h \in Hashes |-> PaintElems(h, head, Positions(GraphString(answer)),
                               max_height(answer))]

\* C21: after the message of a successful checkout to commit h is handled the
\* elements are those the initial paint produces from the same layout with
\* HEAD = h (fill, label x, border size, HEAD text, classes), for any sequence
\* of checkouts, h equal to the current HEAD included.  Violated: for an old
\* HEAD on lane 0 (see C1) the palette lookup is undefined; the paint leaves
\* the fill attribute out, the patch sets it to the text "undefined".
C21_PatchEqualsRepaint ==
  (panel = "open" /\ prevHEAD # 0) => scene = Repaint(HEAD)

\* C21 for layouts in which every commit has a lane: patch and repaint agree.
PatchEqualsRepaintOnLanes ==
  (panel = "open" /\ prevHEAD # 0 /\ \A k \in DOMAIN answer : answer[k].height >= 1)
    => scene = Repaint(HEAD)

\* No checkout request is in flight: every request sent has had its outcome
\* processed.
Quiescent == toHost = <<>> /\ checkouts = <<>> /\ toWebview = <<>>

\* C22: whenever no checkout request is in flight the HEAD variable of the
\* webview names the commit checked out in the repository.  Violated: two
\* checkouts run side by side and the host may see the one that switched the
\* repository last resolve first; the webview ends on the other commit.
C22_QuiescentHeadsAgree ==
  (panel = "open" /\ Quiescent) => HEAD = backendHead

\* The number of checkout requests sent and not answered yet.
Pending == Len(toHost) + Len(checkouts)

\* The step answers a request with the success message for its hash.
AnsweredBySuccess ==
  /\ errorsShown' = errorsShown
  /\ \E k \in DOMAIN checkouts :
        /\ checkouts' = Remove(checkouts, k)
        /\ toWebview' = Append(toWebview,
              [command |-> "gitCheckout", commitHash |-> checkouts[k].hash])

\* The step answers a request with an error notification.
AnsweredByError ==
  /\ errorsShown' = errorsShown + 1
  /\ toWebview' = toWebview

\* C23: while the panel is open every checkout request the webview sends is
\* answered by exactly one outcome: the step that ends a request either posts
\* one success message with the request's hash or shows one error, never both;
\* no other step posts a message or shows an error; and every request sent is
\* eventually answered unless the panel is closed first.
C23_ExactlyOneOutcome ==
  /\ [][(panel = "open" /\ panel' = "open") =>
          /\ Pending' < Pending =>
               /\ Pending' = Pending - 1
               /\ AnsweredBySuccess \/ AnsweredByError
               /\ ~(AnsweredBySuccess /\ AnsweredByError)
          /\ Pending' >= Pending =>
               /\ Len(toWebview') <= Len(toWebview)
               /\ errorsShown' = errorsShown]_vars
  /\ (panel = "open" /\ Pending > 0) ~> (panel # "open" \/ Pending = 0)

\* Two requests were sent on an open panel; one was answered by a success
\* message, which the webview has handled, the other by an error.
C23_Witness ==
  /\ panel = "open"
  /\ dblclicks = 2 /\ Pending = 0
  /\ failed = 1 /\ errorsShown = 1
  /\ prevHEAD # 0 /\ toWebview = <<>>

\* How often the sequence st holds h at the positions in P.
Occurrences(st, h, P) == Cardinality({k \in P \cap DOMAIN st : st[k] = h})

\* The number of iterations of the child loop of commit h so far: each one
\* pushes h, and a pushed commit stays in the buffer until the next flush,
\* where it is not the last element.
Iterations(h) ==
  LET counted[k \in 0..Len(flushes)] ==
        IF k = 0 THEN 0
        ELSE counted[k - 1]
               + Occurrences(flushes[k].buffer, h, 1..(Len(flushes[k].buffer) - 1))
  IN counted[Len(flushes)] + Occurrences(subTree, h, DOMAIN subTree)

\* C24: the traversal of every finite acyclic child relation terminates, and
\* the children of each commit are iterated at most once: the child loop of a
\* commit never makes more iterations than the commit has children, and a call
\* that arrives at a commit whose loop has run finds a non-zero height, so it
\* only flushes.
C24_TerminatesSinglePass ==
  /\ [](\A h \in Hashes :
          /\ Iterations(h) <= Len(commits[h])
          /\ (pc = "dfs" /\ stack # <<>> /\ Top.hash = h /\ Top.i = 0
                /\ Iterations(h) > 0)
               => (height[HashIdx(h)] # 0 /\ ENABLED Flush /\ ~ENABLED Descend))
  /\ (pc = "dfs") ~> (pc = "done")

\* A finished traversal in which a commit was expanded by one run and was the
\* terminating commit of a later run.
C24_Witness ==
  /\ pc = "done"
  /\ \E a, b \in DOMAIN flushes :
        /\ a < b
        /\ LET h == flushes[b].buffer[Len(flushes[b].buffer)]
           IN /\ Len(commits[h]) > 0
              /\ Occurrences(flushes[a].buffer, h, 1..(Len(flushes[a].buffer) - 1)) = 1
              /\ Iterations(h) = Len(commits[h])

====
